---- MODULE Spec2Model ----
(***************************************************************************)
(* Restaurant ordering backend (Salisuili/rest_backend).                   *)
(*                                                                         *)
(* The record store (Supabase tables users, menu_items, user_addresses,    *)
(* orders, order_items), the payment gateway (Paystack transactions) and  *)
(* the bearer tokens login has issued                                      *)
(* are the state; every request handler of the order workflow is one       *)
(* action.  The repository holds three generations of the order            *)
(* controller, all of which read and write the same tables:                *)
(*   src/src/controllers/orderController.js  (createOrder, ...)            *)
(*   src/unnamed/part_010                    (createOrder_010, ...)        *)
(*   src/unnamed/part_011                    (createOrder_011, ...)        *)
(* A handler is one action; what it answers is an operator of the state    *)
(* and the request (<handler>_outcome: the HTTP status and what was        *)
(* written), so a refused request is a step that changes nothing.          *)
(* Timestamps (created_at, updated_at) and descriptive columns are not     *)
(* part of the state.  NULL columns are "null" (text) or 0 (reference).    *)
(***************************************************************************)
EXTENDS Integers, Sequences, FiniteSets, TLC

VARIABLES users, menu_items, user_addresses, orders, order_items,
          next_order_id, paystack, tokens, inflight

vars == <<users, menu_items, user_addresses, orders, order_items,
          next_order_id, paystack, tokens, inflight>>

\* ------------------------------------------------------------ bounds
MaxOrders == 1
MaxOrdersPay == 2
MaxTxns == 2
MaxItems == 2
MaxQuantity == 2
MaxInflight == 2

\* ------------------------------------------------------------ constants of the code
ZariaFreeThreshold == 5000
ZariaFee == 500
OtherCityFee == 1000
FreeThreshold_010 == 5000
Fee_010 == 1000
FreeThreshold_011 == 5000
Fee_011 == 1000
KoboPerNaira == 100
KoboPerNaira_010 == 100
KoboPerNaira_paystack == 100

NULL == "null"
NoReference == 0

\* ------------------------------------------------------------ input domains
UserIds == {"u1", "u2", "admin"}
MenuItemIds == {"m1", "m2"}
MenuItemRefs == MenuItemIds \cup {"mX"}
Prices == {2000, 3000}
ClientPrices == {1, 3000}
AddressRefs == {"a1", "a2", "a3", "a9"}
Quantities == 1..MaxQuantity
OrderRefs == 1..(MaxOrders + 1)

ItemInputs == [id : MenuItemRefs, quantity : Quantities, price : ClientPrices]
ItemLists == UNION {[1..n -> ItemInputs] : n \in 0..MaxItems}

\* String.prototype.toLowerCase on the city names of the store
toLowerCase(s) ==
    CASE s = "Zaria" -> "zaria"
      [] s = "ZARIA" -> "zaria"
      [] s = "Kaduna" -> "kaduna"
      [] OTHER -> s

RECURSIVE SumSeq(_)
SumSeq(s) == IF s = << >> THEN 0 ELSE Head(s) + SumSeq(Tail(s))

\* what a handler answers and what it wrote
Outcome(status, effect) == [status |-> status, effect |-> effect]

\* ------------------------------------------------------------ initial state
Init ==
    /\ users = [u \in UserIds |-> IF u = "admin" THEN "admin" ELSE "user"]
    /\ menu_items = [m \in MenuItemIds |-> IF m = "m1" THEN 2000 ELSE 3000]
    /\ user_addresses =
         [a \in {"a1", "a2", "a3"} |->
            CASE a = "a1" -> [user_id |-> "u1", city |-> "Zaria", is_default |-> TRUE]
              [] a = "a2" -> [user_id |-> "u1", city |-> "Kaduna", is_default |-> FALSE]
              [] a = "a3" -> [user_id |-> "u2", city |-> "ZARIA", is_default |-> TRUE]]
    /\ orders = << >>
    /\ order_items = << >>
    /\ next_order_id = 1
    /\ paystack = << >>
    /\ tokens = {}
    /\ inflight = {}

\* ------------------------------------------------------------ record store helpers
\* insert into a table: the row under the given id
Insert(table, id, row) == (id :> row) @@ table

\* delete from a table where id = ...
Delete(table, id) == [k \in DOMAIN table \ {id} |-> table[k]]

\* Column defaults of the orders table, applied when an insert leaves the
\* column out (createOrder_010 and createOrder_011 do).
DefaultPaymentStatus == "pending"
DefaultIsPickup == FALSE

\* ------------------------------------------------------------ createOrder
\* (src/src/controllers/orderController.js)

\* lines that keep the price the client sent
orderItemsToInsert_ClientPrice(items) ==
    [i \in 1..Len(items) |->
        [menu_item_id |-> items[i].id,
         quantity |-> items[i].quantity,
         price_at_order |-> items[i].price]]

\* for (const item of items): the line built from the price the store holds
orderItemsToInsert(items) ==
    [i \in 1..Len(items) |->
        [menu_item_id |-> items[i].id,
         quantity |-> items[i].quantity,
         price_at_order |-> menu_items[items[i].id]]]

\* subtotal += actualPrice * item.quantity
subtotalOf(lines) ==
    SumSeq([i \in 1..Len(lines) |-> lines[i].price_at_order * lines[i].quantity])

\* delivery fee of a delivery order, by the address's city
deliveryFee(city, subtotal) ==
    IF toLowerCase(city) = "zaria"
    THEN (IF subtotal >= ZariaFreeThreshold THEN 0 ELSE ZariaFee)
    ELSE OtherCityFee

\* .from('user_addresses').eq('id', address_id).eq('user_id', userId).single()
addressOf(address_id, userId) ==
    IF address_id \in DOMAIN user_addresses
       /\ user_addresses[address_id].user_id = userId
    THEN {user_addresses[address_id]}
    ELSE {}

\* a total that leaves the delivery fee out
totalAmount_NoFee(subtotal, delivery_fee) == subtotal

\* const total_amount = subtotal + delivery_fee
totalAmount(subtotal, delivery_fee) == subtotal + delivery_fee

\* the row createOrder inserts into orders
OrderRow(userId, items, address_id, is_pickup) ==
    LET subtotal == subtotalOf(orderItemsToInsert(items))
        delivery_fee ==
            IF is_pickup THEN 0
            ELSE deliveryFee((CHOOSE a \in addressOf(address_id, userId) : TRUE).city,
                             subtotal)
    IN [user_id |-> userId,
        address_id |-> IF is_pickup THEN NULL ELSE address_id,
        status |-> "pending",
        subtotal |-> subtotal,
        delivery_fee |-> delivery_fee,
        total_amount |-> totalAmount(subtotal, delivery_fee),
        payment_status |-> "pending",
        payment_reference |-> NoReference,
        is_pickup |-> is_pickup]

CreateFaults == {"ok", "menuItemsError", "addressError", "orderError",
                 "orderItemsError", "deleteError"}

createOrder_outcome(userId, items, address_id, is_pickup, fault) ==
    IF items = << >>
    THEN Outcome(400, "nothing")
    ELSE IF ~is_pickup /\ address_id = NULL
    THEN Outcome(400, "nothing")
    ELSE IF fault = "menuItemsError"
    THEN Outcome(500, "nothing")
    ELSE IF \E i \in 1..Len(items) : items[i].id \notin DOMAIN menu_items
    THEN Outcome(400, "nothing")
    ELSE IF ~is_pickup /\ (fault = "addressError" \/ addressOf(address_id, userId) = {})
    THEN Outcome(404, "nothing")
    ELSE IF fault = "orderError"
    THEN Outcome(500, "nothing")
    ELSE IF fault = "orderItemsError"
    THEN Outcome(500, "rolled_back")
    ELSE IF fault = "deleteError"
    THEN Outcome(500, "header")
    ELSE Outcome(201, "order")

\* the writes of a createOrder of any generation: the header, the lines
PersistOrder(effect, row, lines) ==
    LET id == next_order_id
    IN /\ effect # "nothing"
       /\ next_order_id' = id + 1
       /\ orders' = IF effect = "rolled_back"
                    THEN Delete(Insert(orders, id, row), id)
                    ELSE Insert(orders, id, row)
       /\ order_items' = IF effect = "order"
                         THEN Insert(order_items, id, lines)
                         ELSE order_items
       /\ UNCHANGED <<users, menu_items, user_addresses, paystack, tokens, inflight>>

createOrder(userId, items, address_id, is_pickup, fault) ==
    LET out == createOrder_outcome(userId, items, address_id, is_pickup, fault)
    IN IF out.effect = "nothing"
       THEN UNCHANGED vars
       ELSE PersistOrder(out.effect,
                            OrderRow(userId, items, address_id, is_pickup),
                            orderItemsToInsert(items))

\* ------------------------------------------------------------ createOrder_010
\* (src/unnamed/part_010)

\* items.map(item => ({..., price_at_order: item.price}))
orderItems_010(items) ==
    [i \in 1..Len(items) |->
        [menu_item_id |-> items[i].id,
         quantity |-> items[i].quantity,
         price_at_order |-> items[i].price]]

\* items.reduce((sum, item) => sum + (item.price * item.quantity), 0)
subtotal_010(items) ==
    SumSeq([i \in 1..Len(items) |-> items[i].price * items[i].quantity])

deliveryFee_010(subtotal) ==
    IF subtotal >= FreeThreshold_010 THEN 0 ELSE Fee_010

OrderRow_010(userId, items, address_id) ==
    LET subtotal == subtotal_010(items)
        fee == deliveryFee_010(subtotal)
    IN [user_id |-> userId,
        address_id |-> address_id,
        status |-> "pending",
        subtotal |-> subtotal,
        delivery_fee |-> fee,
        total_amount |-> subtotal + fee,
        payment_status |-> DefaultPaymentStatus,
        payment_reference |-> NoReference,
        is_pickup |-> DefaultIsPickup]

CreateFaults_010 == {"ok", "orderError", "orderItemsError"}

createOrder_010_outcome(userId, items, address_id, fault) ==
    IF items = << >>
    THEN Outcome(400, "nothing")
    ELSE IF address_id = NULL
    THEN Outcome(400, "nothing")
    ELSE IF fault = "orderError" \/ address_id \notin DOMAIN user_addresses
    THEN \* the insert is refused (23503 on address_id, or any other error)
         Outcome(400, "nothing")
    ELSE IF fault = "orderItemsError"
            \/ \E i \in 1..Len(items) : items[i].id \notin DOMAIN menu_items
    THEN \* throw new Error('Failed to add order items...'), caught
         Outcome(400, "header")
    ELSE Outcome(201, "order")

createOrder_010(userId, items, address_id, fault) ==
    LET out == createOrder_010_outcome(userId, items, address_id, fault)
    IN IF out.effect = "nothing"
       THEN UNCHANGED vars
       ELSE PersistOrder(out.effect,
                            OrderRow_010(userId, items, address_id),
                            orderItems_010(items))

\* ------------------------------------------------------------ createOrder_011
\* (src/unnamed/part_011)

\* items.map(item => ({..., price_at_order: item.price}))
orderItems_011(items) ==
    [i \in 1..Len(items) |->
        [menu_item_id |-> items[i].id,
         quantity |-> items[i].quantity,
         price_at_order |-> items[i].price]]

\* items.reduce((sum, item) => sum + (item.price * item.quantity), 0)
subtotal_011(items) ==
    SumSeq([i \in 1..Len(items) |-> items[i].price * items[i].quantity])

deliveryFee_011(subtotal) ==
    IF subtotal > FreeThreshold_011 THEN 0 ELSE Fee_011

OrderRow_011(user_id, items) ==
    LET subtotal == subtotal_011(items)
        fee == deliveryFee_011(subtotal)
    IN [user_id |-> user_id,
        address_id |-> NULL,
        status |-> "pending",
        subtotal |-> subtotal,
        delivery_fee |-> fee,
        total_amount |-> subtotal + fee,
        payment_status |-> DefaultPaymentStatus,
        payment_reference |-> NoReference,
        is_pickup |-> DefaultIsPickup]

CreateFaults_011 == {"ok", "error", "orderItemsError"}

createOrder_011_outcome(user_id, items, fault) ==
    IF fault = "error"
    THEN Outcome(400, "nothing")
    ELSE IF fault = "orderItemsError" \/ items = << >>
            \/ \E i \in 1..Len(items) : items[i].id \notin DOMAIN menu_items
    THEN \* the result of the order_items insert is not looked at
         Outcome(201, "header")
    ELSE Outcome(201, "order")

createOrder_011(user_id, items, fault) ==
    LET out == createOrder_011_outcome(user_id, items, fault)
    IN IF out.effect = "nothing"
       THEN UNCHANGED vars
       ELSE PersistOrder(out.effect, OrderRow_011(user_id, items),
                            orderItems_011(items))

\* ------------------------------------------------------------ updateMenuItem
\* (src/src/controllers/menuItemController.js), behind adminMiddleware
updateMenuItem_outcome(userId, id, price) ==
    IF users[userId] # "admin"
    THEN Outcome(403, "nothing")
    ELSE IF price <= 0
    THEN Outcome(400, "nothing")
    ELSE IF id \notin DOMAIN menu_items
    THEN Outcome(404, "nothing")
    ELSE Outcome(200, "price")

\* an update that also rewrites the lines of the orders already placed
updateMenuItem_Reprice(userId, id, price) ==
    IF updateMenuItem_outcome(userId, id, price).effect = "nothing"
    THEN UNCHANGED vars
    ELSE /\ menu_items' = [menu_items EXCEPT ![id] = price]
         /\ order_items' =
               [o \in DOMAIN order_items |->
                  [i \in 1..Len(order_items[o]) |->
                     IF order_items[o][i].menu_item_id = id
                     THEN [order_items[o][i] EXCEPT !.price_at_order = price]
                     ELSE order_items[o][i]]]
         /\ UNCHANGED <<users, user_addresses, orders, next_order_id, paystack,
                        tokens, inflight>>

updateMenuItem(userId, id, price) ==
    IF updateMenuItem_outcome(userId, id, price).effect = "nothing"
    THEN UNCHANGED vars
    ELSE /\ menu_items' = [menu_items EXCEPT ![id] = price]
         /\ UNCHANGED <<users, user_addresses, orders, order_items,
                        next_order_id, paystack, tokens, inflight>>

\* ------------------------------------------------------------ Paystack
\* (src/unnamed/part_001 and the axios calls of orderController.js)
\* A transaction's reference is its place in paystack.

GatewayFaults == {"ok", "falsy", "rejected", "unreachable", "updateError"}

\* POST /transaction/initialize: a new transaction, not yet paid
NewTransaction(amount) == [amount |-> amount, status |-> "abandoned"]

\* initializePayment(email, amount, metadata) of config/paystack.js
initializePayment(amount) == NewTransaction(amount * KoboPerNaira_paystack)

\* the writes of an initiatePayment of any generation
RecordPayment(effect, id, txn, update) ==
    /\ effect \in {"txn", "txn_order"}
    /\ paystack' = Append(paystack, txn)
    /\ orders' = IF effect = "txn_order"
                 THEN [orders EXCEPT ![id] = update @@ orders[id]]
                 ELSE orders
    /\ UNCHANGED <<users, menu_items, user_addresses, order_items, next_order_id, tokens, inflight>>

\* what the gateway call and the order update after it come to
GatewayOutcome(fault, failStatus) ==
    CASE fault = "ok" -> Outcome(200, "txn_order")
      [] fault = "updateError" -> Outcome(200, "txn")
      [] fault = "rejected" -> Outcome(failStatus, "gateway_failed")
      [] OTHER -> Outcome(500, "gateway_failed")

\* ------------------------------------------------------------ initiatePayment
\* (src/src/controllers/orderController.js)
initiatePayment_outcome(userId, id, fault) ==
    IF id \notin DOMAIN orders
    THEN Outcome(404, "nothing")
    ELSE IF orders[id].user_id # userId
    THEN Outcome(403, "nothing")
    ELSE IF orders[id].payment_status = "paid"
    THEN Outcome(400, "nothing")
    ELSE GatewayOutcome(fault, 400)

initiatePayment(userId, id, fault) ==
    LET out == initiatePayment_outcome(userId, id, fault)
    IN IF out.effect \in {"nothing", "gateway_failed"}
       THEN UNCHANGED vars
       ELSE RecordPayment(out.effect, id,
                   NewTransaction(orders[id].total_amount * KoboPerNaira),
                   [payment_reference |-> Len(paystack) + 1,
                    payment_status |-> "initiated"])

\* (src/unnamed/part_010)
initiatePayment_010_outcome(userId, orderId, fault) ==
    IF orderId \notin DOMAIN orders
    THEN Outcome(404, "nothing")
    ELSE IF orders[orderId].user_id # userId /\ users[userId] # "admin"
    THEN Outcome(403, "nothing")
    ELSE IF orders[orderId].status # "pending"
    THEN Outcome(400, "nothing")
    ELSE GatewayOutcome(fault, 500)

initiatePayment_010(userId, orderId, fault) ==
    LET out == initiatePayment_010_outcome(userId, orderId, fault)
    IN IF out.effect \in {"nothing", "gateway_failed"}
       THEN UNCHANGED vars
       ELSE RecordPayment(out.effect, orderId,
                   initializePayment(orders[orderId].total_amount * KoboPerNaira_010),
                   [payment_reference |-> Len(paystack) + 1])

\* (src/unnamed/part_011)
initiatePayment_011_outcome(userId, orderId, fault) ==
    IF orderId \notin DOMAIN orders
    THEN Outcome(500, "nothing")
    ELSE GatewayOutcome(fault, 500)

initiatePayment_011(userId, orderId, fault) ==
    LET out == initiatePayment_011_outcome(userId, orderId, fault)
    IN IF out.effect \in {"nothing", "gateway_failed"}
       THEN UNCHANGED vars
       ELSE RecordPayment(out.effect, orderId,
                   initializePayment(orders[orderId].total_amount),
                   [payment_reference |-> Len(paystack) + 1])

\* ------------------------------------------------------------ verifyPayment
\* (src/src/controllers/orderController.js)

\* reference || order.payment_reference
referenceToVerify(reference, order) ==
    IF reference # NoReference THEN reference ELSE order.payment_reference

verifyPayment_outcome(userId, id, reference) ==
    IF id \notin DOMAIN orders
    THEN Outcome(404, "nothing")
    ELSE IF orders[id].user_id # userId /\ users[userId] # "admin"
    THEN Outcome(403, "nothing")
    ELSE LET ref == referenceToVerify(reference, orders[id])
         IN IF ref \notin 1..Len(paystack)
            THEN \* Paystack knows no such transaction: error.response.status
                 Outcome(400, "nothing")
            ELSE IF paystack[ref].status = "success"
            THEN Outcome(200, "paid")
            ELSE Outcome(400, "not_paid")

verifyPayment(userId, id, reference) ==
    LET out == verifyPayment_outcome(userId, id, reference)
        ref == referenceToVerify(reference, orders[id])
    IN IF out.effect = "nothing"
       THEN UNCHANGED vars
       ELSE /\ orders' =
                 IF out.effect = "paid"
                 THEN [orders EXCEPT ![id].payment_status = "paid",
                                     ![id].status = "processing"]
                 ELSE [orders EXCEPT ![id].payment_status = paystack[ref].status]
            /\ UNCHANGED <<users, menu_items, user_addresses, order_items,
                           next_order_id, paystack, tokens, inflight>>

\* ------------------------------------------------------------ updateOrderStatus
\* (src/src/controllers/orderController.js)
validStatuses == {"pending", "processing", "shipped", "delivered", "cancelled",
                  "refunded"}

updateOrderStatus_outcome(userId, id, status) ==
    IF users[userId] # "admin"
    THEN Outcome(403, "nothing")
    ELSE IF status = NULL \/ status \notin validStatuses
    THEN Outcome(400, "nothing")
    ELSE IF id \notin DOMAIN orders
    THEN Outcome(500, "nothing")
    ELSE Outcome(200, "status")

updateOrderStatus(userId, id, status) ==
    IF updateOrderStatus_outcome(userId, id, status).effect = "nothing"
    THEN UNCHANGED vars
    ELSE /\ orders' = [orders EXCEPT ![id].status = status]
         /\ UNCHANGED <<users, menu_items, user_addresses, order_items,
                        next_order_id, paystack, tokens, inflight>>

\* ------------------------------------------------------------ adminMiddleware
\* (src/src/middlewares/authMiddleware.js)

\* a route that lets every authenticated identity through
adminMiddleware_Anyone(userId) == TRUE

\* if (!req.user || req.user.role !== 'admin') -> 403, else next()
adminMiddleware(userId) == users[userId] = "admin"

\* ------------------------------------------------------------ updateOrderStatus_010
\* (src/unnamed/part_010, behind adminMiddleware on the route of part_006)
validStatuses_010 == {"pending", "processing", "shipped", "completed", "cancelled"}

updateOrderStatus_010_outcome(userId, id, status) ==
    IF ~adminMiddleware(userId)
    THEN Outcome(403, "nothing")
    ELSE IF status = NULL \/ status \notin validStatuses_010
    THEN Outcome(400, "nothing")
    ELSE IF id \notin DOMAIN orders
    THEN Outcome(500, "nothing")
    ELSE Outcome(200, "status")

updateOrderStatus_010(userId, id, status) ==
    IF updateOrderStatus_010_outcome(userId, id, status).effect = "nothing"
    THEN UNCHANGED vars
    ELSE /\ orders' = [orders EXCEPT ![id].status = status]
         /\ UNCHANGED <<users, menu_items, user_addresses, order_items,
                        next_order_id, paystack, tokens, inflight>>

\* ------------------------------------------------------------ getOrderById
\* what a read answers: the status and the order in the body, if any
Response(status, body) == [status |-> status, body |-> body]

\* a read that answers whoever asks
getOrderById_Anyone(userId, orderId) ==
    IF orderId \notin DOMAIN orders
    THEN Response(404, NULL)
    ELSE Response(200, orders[orderId])

\* (src/src/controllers/orderController.js)
getOrderById_outcome(userId, orderId) ==
    IF orderId \notin DOMAIN orders
    THEN Response(404, NULL)
    ELSE IF orders[orderId].user_id # userId /\ users[userId] # "admin"
    THEN Response(403, NULL)
    ELSE Response(200, orders[orderId])

getOrderById(userId, orderId) ==
    /\ getOrderById_outcome(userId, orderId).status \in {200, 403, 404}
    /\ UNCHANGED vars

\* (src/unnamed/part_010)
getOrderById_010_outcome(userId, id) ==
    IF id \notin DOMAIN orders
    THEN Response(404, NULL)
    ELSE IF orders[id].user_id # userId /\ users[userId] # "admin"
    THEN Response(403, NULL)
    ELSE Response(200, orders[id])

getOrderById_010(userId, id) ==
    /\ getOrderById_010_outcome(userId, id).status \in {200, 403, 404}
    /\ UNCHANGED vars

\* ------------------------------------------------------------ login
\* (src/src/controllers/authController.js)
\* jwt.sign({id, email, role}): the token carries the role held at login
login(u) ==
    IF u \notin DOMAIN users
    THEN UNCHANGED vars
    ELSE /\ tokens' = tokens \cup {[id |-> u, role |-> users[u]]}
         /\ UNCHANGED <<users, menu_items, user_addresses, orders, order_items,
                        next_order_id, paystack, inflight>>

\* ------------------------------------------------------------ authMiddleware
\* (src/src/middlewares/authMiddleware.js)

\* a request context that takes the role from the token
reqUser_FromToken(token) == [id |-> token.id, role |-> token.role]

\* req.user = user: the row of users with id = decoded.id
reqUser(token) == [id |-> token.id, role |-> users[token.id]]

authMiddleware_outcome(token) ==
    IF token.id \notin DOMAIN users
    THEN Outcome(401, "nothing")
    ELSE Outcome(200, "next")

\* ------------------------------------------------------------ deleteUser, updateUserRole
\* (src/src/controllers/userController.js, behind authMiddleware and
\* adminMiddleware on the routes of src/unnamed/part_008)
adminCount == Cardinality({u \in DOMAIN users : users[u] = "admin"})

DeleteFaults == {"ok", "23503", "error"}

deleteUser_outcome(token, targetUserId, fault) ==
    IF authMiddleware_outcome(token).status = 401
    THEN Outcome(401, "nothing")
    ELSE IF reqUser(token).role # "admin"
    THEN Outcome(403, "nothing")
    ELSE IF reqUser(token).id = targetUserId
    THEN Outcome(400, "nothing")
    ELSE IF targetUserId \notin DOMAIN users
    THEN Outcome(404, "nothing")
    ELSE IF users[targetUserId] = "admin" /\ adminCount <= 1
    THEN Outcome(400, "nothing")
    ELSE IF fault = "23503"
    THEN Outcome(400, "nothing")
    ELSE IF fault = "error"
    THEN Outcome(500, "nothing")
    ELSE Outcome(200, "deleted")

deleteUser(token, targetUserId, fault) ==
    IF deleteUser_outcome(token, targetUserId, fault).effect = "nothing"
    THEN UNCHANGED vars
    ELSE /\ users' = [u \in DOMAIN users \ {targetUserId} |-> users[u]]
         /\ user_addresses' =
               [a \in {x \in DOMAIN user_addresses :
                          user_addresses[x].user_id # targetUserId}
                  |-> user_addresses[a]]
         /\ UNCHANGED <<menu_items, orders, order_items, next_order_id, paystack,
                        tokens, inflight>>

validRoles == {"admin", "customer", "driver", "staff"}

updateUserRole_outcome(token, targetUserId, newRole) ==
    IF authMiddleware_outcome(token).status = 401
    THEN Outcome(401, "nothing")
    ELSE IF reqUser(token).role # "admin"
    THEN Outcome(403, "nothing")
    ELSE IF newRole = NULL \/ newRole \notin validRoles
    THEN Outcome(400, "nothing")
    ELSE IF targetUserId \notin DOMAIN users
    THEN Outcome(404, "nothing")
    ELSE IF targetUserId = reqUser(token).id /\ newRole # "admin"
    THEN Outcome(400, "nothing")
    ELSE IF users[targetUserId] = "admin" /\ newRole # "admin" /\ adminCount <= 1
    THEN Outcome(400, "nothing")
    ELSE Outcome(200, "role")

updateUserRole(token, targetUserId, newRole) ==
    IF updateUserRole_outcome(token, targetUserId, newRole).effect = "nothing"
    THEN UNCHANGED vars
    ELSE /\ users' = [users EXCEPT ![targetUserId] = newRole]
         /\ UNCHANGED <<menu_items, user_addresses, orders, order_items,
                        next_order_id, paystack, tokens, inflight>>

\* ------------------------------------------------------------ requests in progress
\* A handler that awaits the store more than once is one action per store
\* operation; between them the request is in inflight, with what it holds.
Request(op, user, target, arg) ==
    [op |-> op, user |-> user, target |-> target, arg |-> arg]

\* ------------------------------------------------------------ addresses
\* (src/src/controllers/userController.js)
NewAddressIds == {"a4", "a5"}

addressesOf(userId) ==
    {a \in DOMAIN user_addresses : user_addresses[a].user_id = userId}

\* .update({is_default: false}).eq('user_id', userId).eq('is_default', true)
unsetDefault(userId) ==
    [a \in DOMAIN user_addresses |->
        IF user_addresses[a].user_id = userId /\ user_addresses[a].is_default
        THEN [user_addresses[a] EXCEPT !.is_default = FALSE]
        ELSE user_addresses[a]]

AddressRow(userId, city, is_default) ==
    [user_id |-> userId, city |-> city, is_default |-> is_default]

\* addUserAddress up to its first store operation: the unset of the previous
\* default when is_default, else the insert
addUserAddress(userId, city, is_default) ==
    IF city = NULL
    THEN UNCHANGED vars
    ELSE IF is_default
    THEN /\ user_addresses' = unsetDefault(userId)
         /\ inflight' = inflight \cup {Request("addUserAddress", userId, NULL, city)}
         /\ UNCHANGED <<users, menu_items, orders, order_items, next_order_id,
                        paystack, tokens>>
    ELSE \E id \in NewAddressIds \ DOMAIN user_addresses :
            /\ user_addresses' =
                  Insert(user_addresses, id, AddressRow(userId, city, FALSE))
            /\ UNCHANGED <<users, menu_items, orders, order_items, next_order_id,
                           paystack, tokens, inflight>>

\* the insert of an addUserAddress with is_default
addUserAddress_insert(r) ==
    /\ r.op = "addUserAddress"
    /\ \E id \in NewAddressIds \ DOMAIN user_addresses :
          user_addresses' = Insert(user_addresses, id, AddressRow(r.user, r.arg, TRUE))
    /\ inflight' = inflight \ {r}
    /\ UNCHANGED <<users, menu_items, orders, order_items, next_order_id,
                   paystack, tokens>>

\* .update(updates).eq('id', addressId).eq('user_id', userId)
setDefault(userId, addressId, is_default) ==
    IF addressId \in addressesOf(userId)
    THEN [user_addresses EXCEPT ![addressId].is_default = is_default]
    ELSE user_addresses

\* updateAddress up to its first store operation; is_default is "true",
\* "false" or NULL (not in the body, and no other field either)
updateAddress(userId, addressId, is_default) ==
    IF is_default = NULL
    THEN UNCHANGED vars
    ELSE IF is_default = "true"
    THEN /\ user_addresses' = unsetDefault(userId)
         /\ inflight' = inflight \cup {Request("updateAddress", userId, addressId, NULL)}
         /\ UNCHANGED <<users, menu_items, orders, order_items, next_order_id,
                        paystack, tokens>>
    ELSE /\ user_addresses' = setDefault(userId, addressId, FALSE)
         /\ UNCHANGED <<users, menu_items, orders, order_items, next_order_id,
                        paystack, tokens, inflight>>

\* the update of an updateAddress with is_default === true
updateAddress_update(r) ==
    /\ r.op = "updateAddress"
    /\ user_addresses' = setDefault(r.user, r.target, TRUE)
    /\ inflight' = inflight \ {r}
    /\ UNCHANGED <<users, menu_items, orders, order_items, next_order_id,
                   paystack, tokens>>

\* what deleteAddress answers from the addresses it has read
deleteAddress_outcome(userId, addressId) ==
    IF addressId \notin addressesOf(userId)
    THEN Outcome(404, "nothing")
    ELSE IF Cardinality(addressesOf(userId)) = 1
    THEN Outcome(400, "nothing")
    ELSE IF user_addresses[addressId].is_default
    THEN Outcome(400, "nothing")
    ELSE Outcome(200, "deleted")

\* deleteAddress up to its delete: the read of the user's addresses
deleteAddress(userId, addressId) ==
    IF deleteAddress_outcome(userId, addressId).effect = "nothing"
    THEN UNCHANGED vars
    ELSE /\ inflight' = inflight \cup {Request("deleteAddress", userId, addressId, NULL)}
         /\ UNCHANGED <<users, menu_items, user_addresses, orders, order_items,
                        next_order_id, paystack, tokens>>

\* .delete().eq('id', addressId).eq('user_id', userId)
deleteAddress_delete(r) ==
    /\ r.op = "deleteAddress"
    /\ user_addresses' =
          IF r.target \in addressesOf(r.user)
          THEN Delete(user_addresses, r.target)
          ELSE user_addresses
    /\ inflight' = inflight \ {r}
    /\ UNCHANGED <<users, menu_items, orders, order_items, next_order_id,
                   paystack, tokens>>

\* ------------------------------------------------------------ createOrder, store operation by store operation
\* (src/src/controllers/orderController.js)
\* createOrder up to the insert into orders: the request keeps the new
\* order's id and the lines it is about to insert
createOrder_header(userId, items, address_id, is_pickup, fault) ==
    IF createOrder_outcome(userId, items, address_id, is_pickup, fault).effect = "nothing"
    THEN UNCHANGED vars
    ELSE /\ orders' = Insert(orders, next_order_id,
                             OrderRow(userId, items, address_id, is_pickup))
         /\ next_order_id' = next_order_id + 1
         /\ inflight' = inflight \cup
               {Request("createOrder", userId, next_order_id, orderItemsToInsert(items))}
         /\ UNCHANGED <<users, menu_items, user_addresses, order_items, paystack,
                        tokens>>

\* the insert into order_items: the lines are stored and the request
\* answers 201, or orderItemsError and the request goes on to its rollback
createOrder_items(r, orderItemsError) ==
    /\ r.op = "createOrder"
    /\ IF orderItemsError
       THEN /\ inflight' = (inflight \ {r}) \cup
                  {Request("createOrder_rollback", r.user, r.target, r.arg)}
            /\ UNCHANGED order_items
       ELSE /\ order_items' = Insert(order_items, r.target, r.arg)
            /\ inflight' = inflight \ {r}
    /\ UNCHANGED <<users, menu_items, user_addresses, orders, next_order_id,
                   paystack, tokens>>

\* await supabase.from('orders').delete().eq('id', newOrder.id), its
\* result unread
createOrder_rollback(r, deleteError) ==
    /\ r.op = "createOrder_rollback"
    /\ orders' = IF deleteError THEN orders ELSE Delete(orders, r.target)
    /\ inflight' = inflight \ {r}
    /\ UNCHANGED <<users, menu_items, user_addresses, order_items, next_order_id,
                   paystack, tokens>>

\* ------------------------------------------------------------ getMyOrders, getAllOrders
\* order_items(*) of a select on orders: the lines stored for the order
linesOf(id) == IF id \in DOMAIN order_items THEN order_items[id] ELSE << >>

\* one order of a list in a response body
Listed(id) == [id |-> id, order |-> orders[id], order_items |-> linesOf(id)]

\* .from('orders').select('*, order_items(...)').eq('user_id', userId)
getMyOrders_outcome(userId) ==
    Response(200, {Listed(id) : id \in {o \in DOMAIN orders : orders[o].user_id = userId}})

getMyOrders(userId) ==
    /\ getMyOrders_outcome(userId).status = 200
    /\ UNCHANGED vars

getAllOrders_outcome(userId) ==
    IF users[userId] # "admin"
    THEN Response(403, {})
    ELSE Response(200, {Listed(id) : id \in DOMAIN orders})

getAllOrders(userId) ==
    /\ getAllOrders_outcome(userId).status \in {200, 403}
    /\ UNCHANGED vars

\* ------------------------------------------------------------ initiatePayment, store operation by store operation
\* (src/src/controllers/orderController.js)
\* initiatePayment up to its checks on the order it has read: the request
\* keeps order.total_amount
initiatePayment_read(userId, id) ==
    IF initiatePayment_outcome(userId, id, "ok").effect = "nothing"
    THEN UNCHANGED vars
    ELSE /\ inflight' = inflight \cup
               {Request("initiatePayment", userId, id, orders[id].total_amount)}
         /\ UNCHANGED <<users, menu_items, user_addresses, orders, order_items,
                        next_order_id, paystack, tokens>>

\* axios.post('https://api.paystack.co/transaction/initialize'): the request
\* keeps paystackResponse.data.data.reference, or answers 4xx/5xx and ends
initiatePayment_gateway(r, fault) ==
    /\ r.op = "initiatePayment"
    /\ IF GatewayOutcome(fault, 400).effect = "gateway_failed"
       THEN /\ inflight' = inflight \ {r}
            /\ UNCHANGED paystack
       ELSE /\ paystack' = Append(paystack, NewTransaction(r.arg * KoboPerNaira))
            /\ inflight' = (inflight \ {r}) \cup
                  {Request("initiatePayment_update", r.user, r.target,
                           Len(paystack) + 1)}
    /\ UNCHANGED <<users, menu_items, user_addresses, orders, order_items,
                   next_order_id, tokens>>

\* .update({payment_reference, payment_status: 'initiated'}).eq('id', order.id),
\* its result unread
initiatePayment_update(r, updateError) ==
    /\ r.op = "initiatePayment_update"
    /\ orders' = IF updateError \/ r.target \notin DOMAIN orders
                 THEN orders
                 ELSE [orders EXCEPT ![r.target].payment_reference = r.arg,
                                     ![r.target].payment_status = "initiated"]
    /\ inflight' = inflight \ {r}
    /\ UNCHANGED <<users, menu_items, user_addresses, order_items, next_order_id,
                   paystack, tokens>>

\* ------------------------------------------------------------ deleteUser, updateUserRole, store operation by store operation
\* (src/src/controllers/userController.js)
\* deleteUser up to its delete: the checks on req.user, on the target it has
\* read and on the admins it has counted
deleteUser_check(token, targetUserId) ==
    IF deleteUser_outcome(token, targetUserId, "ok").effect = "nothing"
    THEN UNCHANGED vars
    ELSE /\ inflight' = inflight \cup
               {Request("deleteUser", token.id, targetUserId, NULL)}
         /\ UNCHANGED <<users, menu_items, user_addresses, orders, order_items,
                        next_order_id, paystack, tokens>>

\* .from('users').delete().eq('id', targetUserId)
deleteUser_delete(r, fault) ==
    /\ r.op = "deleteUser"
    /\ inflight' = inflight \ {r}
    /\ IF fault = "ok"
       THEN /\ users' = [u \in DOMAIN users \ {r.target} |-> users[u]]
            /\ user_addresses' =
                  [a \in {x \in DOMAIN user_addresses :
                             user_addresses[x].user_id # r.target}
                     |-> user_addresses[a]]
       ELSE UNCHANGED <<users, user_addresses>>
    /\ UNCHANGED <<menu_items, orders, order_items, next_order_id, paystack, tokens>>

\* updateUserRole up to its update
updateUserRole_check(token, targetUserId, newRole) ==
    IF updateUserRole_outcome(token, targetUserId, newRole).effect = "nothing"
    THEN UNCHANGED vars
    ELSE /\ inflight' = inflight \cup
               {Request("updateUserRole", token.id, targetUserId, newRole)}
         /\ UNCHANGED <<users, menu_items, user_addresses, orders, order_items,
                        next_order_id, paystack, tokens>>

\* .from('users').update({role: newRole}).eq('id', targetUserId)
updateUserRole_update(r) ==
    /\ r.op = "updateUserRole"
    /\ inflight' = inflight \ {r}
    /\ users' = IF r.target \in DOMAIN users
                THEN [users EXCEPT ![r.target] = r.arg]
                ELSE users
    /\ UNCHANGED <<menu_items, user_addresses, orders, order_items, next_order_id,
                   paystack, tokens>>

\* ------------------------------------------------------------ the customer at Paystack
\* The customer completes or fails the checkout of a transaction.
PaystackCharge(ref, result) ==
    /\ ref \in 1..Len(paystack)
    /\ paystack[ref].status = "abandoned"
    /\ paystack' = [paystack EXCEPT ![ref].status = result]
    /\ UNCHANGED <<users, menu_items, user_addresses, orders, order_items,
                   next_order_id, tokens, inflight>>

\* ------------------------------------------------------------ specifications
StatusInputs == validStatuses \cup {"completed", NULL}
ReferenceInputs == 0..(MaxTxns + 1)
\* one line of the dearer dish, the client price the menu's
WorkflowItemLists == [1..1 -> [id : {"m2"}, quantity : Quantities, price : {3000}]]

\* --- order entry of the current controller, and the menu
CreateStep ==
    /\ next_order_id <= MaxOrders
    /\ \E u \in UserIds, items \in ItemLists, a \in AddressRefs \cup {NULL},
          p \in BOOLEAN, f \in CreateFaults :
          createOrder(u, items, a, p, f)

MenuStep ==
    \E u \in UserIds, m \in MenuItemRefs, p \in Prices \cup {0} :
       updateMenuItem(u, m, p)

NextCreate == CreateStep \/ MenuStep

SpecCreate == Init /\ [][NextCreate]_vars

\* --- order entry of every generation of the controller, and the menu
CreateStep_010 ==
    /\ next_order_id <= MaxOrders
    /\ \E u \in UserIds, items \in ItemLists, a \in AddressRefs \cup {NULL},
          f \in CreateFaults_010 :
          createOrder_010(u, items, a, f)

CreateStep_011 ==
    /\ next_order_id <= MaxOrders
    /\ \E u \in UserIds, items \in ItemLists, f \in CreateFaults_011 :
          createOrder_011(u, items, f)

NextHistory == CreateStep \/ CreateStep_010 \/ CreateStep_011 \/ MenuStep

SpecHistory == Init /\ [][NextHistory]_vars

\* --- the workflow of one order: placed, paid for, verified, fulfilled
PlaceStep ==
    /\ next_order_id <= MaxOrders
    /\ \E u \in UserIds, items \in WorkflowItemLists, a \in AddressRefs \cup {NULL},
          p \in BOOLEAN, f \in CreateFaults :
          createOrder(u, items, a, p, f)

InitiateStep ==
    /\ Len(paystack) < MaxTxns
    /\ \E u \in UserIds, o \in OrderRefs, f \in GatewayFaults :
          initiatePayment(u, o, f)

InitiateStep_010 ==
    /\ Len(paystack) < MaxTxns
    /\ \E u \in UserIds, o \in OrderRefs, f \in GatewayFaults :
          initiatePayment_010(u, o, f)

InitiateStep_011 ==
    /\ Len(paystack) < MaxTxns
    /\ \E u \in UserIds, o \in OrderRefs, f \in GatewayFaults :
          initiatePayment_011(u, o, f)

VerifyStep ==
    \E u \in UserIds, o \in OrderRefs, r \in ReferenceInputs : verifyPayment(u, o, r)

StatusStep ==
    \E u \in UserIds, o \in OrderRefs, st \in StatusInputs : updateOrderStatus(u, o, st)

ChargeStep ==
    \E r \in 1..Len(paystack), result \in {"success", "failed"} :
       PaystackCharge(r, result)

Next ==
    \/ PlaceStep
    \/ InitiateStep
    \/ InitiateStep_010
    \/ InitiateStep_011
    \/ VerifyStep
    \/ StatusStep
    \/ ChargeStep

Spec == Init /\ [][Next]_vars

\* --- two customers' pickup orders paid through the current controller
PayPlaceStep ==
    /\ next_order_id <= MaxOrdersPay
    /\ \E u \in {"u1", "u2"}, items \in WorkflowItemLists :
          createOrder(u, items, NULL, TRUE, "ok")

PayInitiateStep ==
    /\ Len(paystack) < MaxTxns
    /\ \E u \in {"u1", "u2"}, o \in 1..MaxOrdersPay : initiatePayment(u, o, "ok")

PayVerifyStep ==
    \E u \in UserIds, o \in 1..MaxOrdersPay, r \in ReferenceInputs :
       verifyPayment(u, o, r)

NextPay == PayPlaceStep \/ PayInitiateStep \/ PayVerifyStep \/ ChargeStep

SpecPay == Init /\ [][NextPay]_vars

\* --- one order placed, read, and moved through its statuses by every
\* generation of updateOrderStatus
StatusStep_010 ==
    \E u \in UserIds, o \in OrderRefs, st \in StatusInputs :
       updateOrderStatus_010(u, o, st)

GetStep ==
    \E u \in UserIds, o \in OrderRefs : getOrderById(u, o)

GetStep_010 ==
    \E u \in UserIds, o \in OrderRefs : getOrderById_010(u, o)

NextStatus == PlaceStep \/ StatusStep \/ StatusStep_010 \/ GetStep \/ GetStep_010

SpecStatus == Init /\ [][NextStatus]_vars


\* --- order entry of the current controller with quantities of every sign
QuantityInputs == (0 - 1)..MaxQuantity

QuantityItemLists ==
    [1..1 -> [id : MenuItemIds, quantity : QuantityInputs, price : {3000}]]

QuantityStep ==
    /\ next_order_id <= MaxOrders
    /\ \E u \in UserIds, items \in QuantityItemLists, a \in AddressRefs \cup {NULL},
          p \in BOOLEAN, f \in CreateFaults :
          createOrder(u, items, a, p, f)

NextQuantity == QuantityStep \/ MenuStep

SpecQuantity == Init /\ [][NextQuantity]_vars

\* --- accounts: logins, and the admin's deletions and role changes
RoleInputs == {"admin", "customer", "user", NULL}

LoginStep == \E u \in UserIds : login(u)

DeleteUserStep ==
    \E t \in tokens, target \in UserIds, f \in DeleteFaults : deleteUser(t, target, f)

RoleStep ==
    \E t \in tokens, target \in UserIds, r \in RoleInputs :
       updateUserRole(t, target, r)

NextAuth == LoginStep \/ DeleteUserStep \/ RoleStep

SpecAuth == Init /\ [][NextAuth]_vars

\* --- one order placed, paid for and fulfilled while the menu changes
NextFrozen ==
    PlaceStep \/ MenuStep \/ InitiateStep \/ ChargeStep \/ VerifyStep \/ StatusStep

SpecFrozen == Init /\ [][NextFrozen]_vars

\* --- the address book of two users, requests overlapping
\* is_default of the body: true, false, or not there
DefaultInputs == {"true", "false", NULL}

AddressAddStep ==
    /\ Cardinality(inflight) < MaxInflight
    /\ \E u \in {"u1", "u2"}, city \in {"Zaria", NULL}, d \in BOOLEAN :
          addUserAddress(u, city, d)

AddressInsertStep == \E r \in inflight : addUserAddress_insert(r)

AddressUpdateStep ==
    /\ Cardinality(inflight) < MaxInflight
    /\ \E u \in {"u1", "u2"}, a \in AddressRefs, d \in DefaultInputs :
          updateAddress(u, a, d)

AddressSetStep == \E r \in inflight : updateAddress_update(r)

AddressReadStep ==
    /\ Cardinality(inflight) < MaxInflight
    /\ \E u \in {"u1", "u2"}, a \in AddressRefs : deleteAddress(u, a)

AddressDeleteStep == \E r \in inflight : deleteAddress_delete(r)

NextAddress ==
    \/ AddressAddStep
    \/ AddressInsertStep
    \/ AddressUpdateStep
    \/ AddressSetStep
    \/ AddressReadStep
    \/ AddressDeleteStep

SpecAddress == Init /\ [][NextAddress]_vars

\* --- orders entered store operation by store operation, and read meanwhile
HeaderStep ==
    /\ next_order_id <= MaxOrdersPay
    /\ Cardinality(inflight) < MaxInflight
    /\ \E u \in {"u1", "u2"}, items \in WorkflowItemLists, p \in BOOLEAN :
          createOrder_header(u, items, IF p THEN NULL ELSE "a1", p, "ok")

ItemsStep == \E r \in inflight, orderItemsError \in BOOLEAN :
                createOrder_items(r, orderItemsError)

RollbackStep == \E r \in inflight, deleteError \in BOOLEAN :
                   createOrder_rollback(r, deleteError)

ReadOneStep == \E u \in UserIds, o \in 1..MaxOrdersPay : getOrderById(u, o)

ReadMineStep == \E u \in UserIds : getMyOrders(u)

ReadAllStep == \E u \in UserIds : getAllOrders(u)

NextRead ==
    \/ HeaderStep
    \/ ItemsStep
    \/ RollbackStep
    \/ ReadOneStep
    \/ ReadMineStep
    \/ ReadAllStep

SpecRead == Init /\ [][NextRead]_vars

\* --- one pickup order paid for, its payment requests overlapping the
\* verification
RacePlaceStep ==
    /\ next_order_id <= MaxOrders
    /\ \E u \in {"u1", "u2"}, items \in WorkflowItemLists :
          createOrder(u, items, NULL, TRUE, "ok")

RaceReadStep ==
    /\ Cardinality(inflight) < MaxInflight
    /\ \E u \in UserIds, o \in OrderRefs : initiatePayment_read(u, o)

RaceGatewayStep ==
    /\ Len(paystack) < MaxTxns
    /\ \E r \in inflight, f \in GatewayFaults \ {"updateError"} :
          initiatePayment_gateway(r, f)

RaceUpdateStep ==
    \E r \in inflight, updateError \in BOOLEAN : initiatePayment_update(r, updateError)

\* the customer has the authorization_url of a transaction once the request
\* that opened it has answered
RaceChargeStep ==
    \E ref \in 1..Len(paystack), result \in {"success", "failed"} :
       /\ \A r \in inflight : ~(r.op = "initiatePayment_update" /\ r.arg = ref)
       /\ PaystackCharge(ref, result)

NextRace ==
    \/ RacePlaceStep
    \/ RaceReadStep
    \/ RaceGatewayStep
    \/ RaceUpdateStep
    \/ RaceChargeStep
    \/ VerifyStep

SpecRace == Init /\ [][NextRace]_vars

\* --- accounts, the admins' deletions and role changes overlapping
DeleteCheckStep ==
    /\ Cardinality(inflight) < MaxInflight
    /\ \E t \in tokens, target \in UserIds : deleteUser_check(t, target)

DeleteWriteStep == \E r \in inflight, f \in DeleteFaults : deleteUser_delete(r, f)

RoleCheckStep ==
    /\ Cardinality(inflight) < MaxInflight
    /\ \E t \in tokens, target \in UserIds, r \in RoleInputs :
          updateUserRole_check(t, target, r)

RoleWriteStep == \E r \in inflight : updateUserRole_update(r)

NextAdmins ==
    \/ LoginStep
    \/ DeleteCheckStep
    \/ DeleteWriteStep
    \/ RoleCheckStep
    \/ RoleWriteStep

SpecAdmins == Init /\ [][NextAdmins]_vars

\* ------------------------------------------------------------ claims

LineTotal(lines) ==
    SumSeq([i \in 1..Len(lines) |-> lines[i].price_at_order * lines[i].quantity])

\* C1: in every reachable state of the order workflow (createOrder,
\* initiatePayment, verifyPayment, updateOrderStatus in any order), every
\* persisted order has total_amount = subtotal + delivery_fee.
C1_TotalIsSubtotalPlusFee ==
    \A o \in DOMAIN orders :
        orders[o].total_amount = orders[o].subtotal + orders[o].delivery_fee

\* a delivery order with a fee that was paid for, verified and shipped
C1_Witness ==
    \E o \in DOMAIN orders :
        /\ orders[o].delivery_fee > 0
        /\ orders[o].payment_reference # NoReference
        /\ orders[o].payment_status = "paid"
        /\ orders[o].status = "shipped"

\* C2: every step of createOrder that persists an order with its lines gives
\* each line the price menu_items held when the step read it, and the order
\* the subtotal that is the sum of price_at_order * quantity over the lines.
C2_SubtotalFromStorePrices ==
    [][(next_order_id' = next_order_id + 1 /\ next_order_id \in DOMAIN order_items')
       => LET lines == order_items'[next_order_id]
          IN /\ orders'[next_order_id].subtotal = LineTotal(lines)
             /\ \A i \in 1..Len(lines) :
                   lines[i].price_at_order = menu_items[lines[i].menu_item_id]
      ]_vars

\* an order of two dishes placed after the price of m1 was raised from 2000
C2_Witness ==
    \E o \in DOMAIN order_items :
        /\ Len(order_items[o]) = 2
        /\ order_items[o][1] =
              [menu_item_id |-> "m1", quantity |-> 2, price_at_order |-> 3000]
        /\ order_items[o][2].menu_item_id = "m2"
        /\ orders[o].subtotal = 6000 + 3000 * order_items[o][2].quantity

SameButPrice(items1, items2) ==
    /\ Len(items1) = Len(items2)
    /\ \A i \in 1..Len(items1) :
          /\ items1[i].id = items2[i].id
          /\ items1[i].quantity = items2[i].quantity

\* C3: two createOrder requests against the same store that differ only in
\* the price of their items are answered alike and persist the same header
\* and the same lines, in every generation of createOrder.
C3_ClientPriceIgnored ==
    \A u \in UserIds, a \in DOMAIN user_addresses, items1 \in ItemLists,
       items2 \in ItemLists :
        SameButPrice(items1, items2) =>
          /\ createOrder_outcome(u, items1, a, FALSE, "ok")
                = createOrder_outcome(u, items2, a, FALSE, "ok")
          /\ createOrder_outcome(u, items1, a, FALSE, "ok").effect = "order"
                => /\ OrderRow(u, items1, a, FALSE) = OrderRow(u, items2, a, FALSE)
                   /\ orderItemsToInsert(items1) = orderItemsToInsert(items2)
          /\ createOrder_010_outcome(u, items1, a, "ok")
                = createOrder_010_outcome(u, items2, a, "ok")
          /\ OrderRow_010(u, items1, a) = OrderRow_010(u, items2, a)
          /\ orderItems_010(items1) = orderItems_010(items2)
          /\ OrderRow_011(u, items1) = OrderRow_011(u, items2)
          /\ orderItems_011(items1) = orderItems_011(items2)

ForeignAddress(a, u) ==
    a \notin DOMAIN user_addresses \/ user_addresses[a].user_id # u

ValidItemLists ==
    {items \in ItemLists :
        items # << >> /\ \A i \in 1..Len(items) : items[i].id \in DOMAIN menu_items}

\* C4: a delivery createOrder (its items valid, the store answering) whose
\* address_id names an address that does not exist or is another user's is
\* answered 404 and persists nothing, whichever of the two it is.
C4_ForeignAddressIs404 ==
    \A u \in UserIds, a \in AddressRefs, items \in ValidItemLists :
        ForeignAddress(a, u) =>
          /\ createOrder_outcome(u, items, a, FALSE, "ok") = Outcome(404, "nothing")
          /\ createOrder_010_outcome(u, items, a, "ok") = Outcome(404, "nothing")

\* C5: after createOrder has answered, the store holds no order header whose
\* line-item insert failed (an order of no items, which createOrder_011
\* accepts, has no lines to insert).
C5_NoHeaderWithoutLines ==
    \A o \in DOMAIN orders :
        orders[o].subtotal > 0 => o \in DOMAIN order_items

\* C6: verifyPayment of an order that is already paid, with the order's own
\* reference and the gateway again reporting success, writes nothing to the
\* order.
C6_VerifyTwiceIsNoOp ==
    [][\A u \in UserIds, o \in DOMAIN orders :
          (/\ orders[o].payment_status = "paid"
           /\ verifyPayment_outcome(u, o, orders[o].payment_reference).effect = "paid"
           /\ verifyPayment(u, o, orders[o].payment_reference))
          => orders' = orders
      ]_vars

\* C7: when the gateway reports success for an amount other than the order's
\* total (in kobo), verifyPayment sets payment_status to discrepancy and
\* leaves status as it was.
C7_MismatchIsDiscrepancy ==
    [][\A u \in UserIds, o \in DOMAIN orders, r \in ReferenceInputs :
          (/\ verifyPayment_outcome(u, o, r).effect = "paid"
           /\ paystack[referenceToVerify(r, orders[o])].amount
                 # orders[o].total_amount * KoboPerNaira
           /\ verifyPayment(u, o, r))
          => /\ orders'[o].payment_status = "discrepancy"
             /\ orders'[o].status = orders[o].status
      ]_vars

\* C8: a verifyPayment that carries a reference other than the order's own
\* stored payment_reference changes neither its payment_status nor its status.
C8_OnlyOwnReferencePays ==
    [][\A u \in UserIds, o \in DOMAIN orders, r \in ReferenceInputs :
          (/\ referenceToVerify(r, orders[o]) # orders[o].payment_reference
           /\ verifyPayment(u, o, r))
          => /\ orders'[o].payment_status = orders[o].payment_status
             /\ orders'[o].status = orders[o].status
      ]_vars

\* C9: initiatePayment by the owner of an order that is already paid is
\* answered 400 without a gateway call or a write, in every generation of
\* initiatePayment.
C9_NoDoublePayment ==
    \A o \in DOMAIN orders, f \in GatewayFaults :
        orders[o].payment_status = "paid" =>
          /\ initiatePayment_outcome(orders[o].user_id, o, f) = Outcome(400, "nothing")
          /\ initiatePayment_010_outcome(orders[o].user_id, o, f)
                = Outcome(400, "nothing")
          /\ initiatePayment_011_outcome(orders[o].user_id, o, f)
                = Outcome(400, "nothing")

\* C10: initiatePayment on an existing order is refused with 403, before any
\* gateway call or write, exactly when the actor is neither the order's owner
\* nor an admin, in every generation of initiatePayment.
C10_RefusedIffStranger ==
    \A u \in UserIds, o \in DOMAIN orders, f \in GatewayFaults :
        LET stranger == orders[o].user_id # u /\ users[u] # "admin"
        IN /\ (initiatePayment_outcome(u, o, f) = Outcome(403, "nothing")) <=> stranger
           /\ (initiatePayment_010_outcome(u, o, f) = Outcome(403, "nothing"))
                 <=> stranger
           /\ (initiatePayment_011_outcome(u, o, f) = Outcome(403, "nothing"))
                 <=> stranger

GatewayFailures == {"falsy", "rejected", "unreachable"}

\* C11: an initiatePayment whose gateway call fails (it throws, or answers
\* with a falsy status) is answered with a 5xx status; the order keeps its
\* payment_reference and payment_status.
C11_GatewayFailureIs5xx ==
    \A u \in UserIds, o \in DOMAIN orders, f \in GatewayFailures :
        /\ initiatePayment_outcome(u, o, f).effect = "gateway_failed"
              => initiatePayment_outcome(u, o, f).status >= 500
        /\ initiatePayment_010_outcome(u, o, f).effect = "gateway_failed"
              => initiatePayment_010_outcome(u, o, f).status >= 500

\* the fulfillment states the order contract enumerates
FulfillmentStates ==
    {"pending", "payment_pending", "processing", "shipped", "completed", "cancelled"}

\* C13: the status of every order is one of pending, payment_pending,
\* processing, shipped, completed, cancelled: updateOrderStatus refuses any
\* other target status.
C13_StatusInAllowList ==
    \A o \in DOMAIN orders : orders[o].status \in FulfillmentStates

\* the payment states the order contract enumerates
PaymentStates ==
    {"pending", "initiated", "paid", "failed", "discrepancy", "reversed"}

\* C20: after any sequence of createOrder, initiatePayment and verifyPayment,
\* the payment_status of every order is one of pending, initiated, paid,
\* failed, discrepancy, reversed.
C20_PaymentStatusEnum ==
    \A o \in DOMAIN orders : orders[o].payment_status \in PaymentStates

\* C12: an identity whose role is not admin is answered 403 by the status
\* update of every route (the controller's own check, and the route behind
\* adminMiddleware), and no step that is such a call changes an order.
C12_NonAdminRefused ==
    /\ [](\A u \in UserIds, o \in OrderRefs, st \in StatusInputs :
            users[u] # "admin" =>
              /\ updateOrderStatus_outcome(u, o, st) = Outcome(403, "nothing")
              /\ updateOrderStatus_010_outcome(u, o, st) = Outcome(403, "nothing"))
    /\ [][\A u \in UserIds, o \in OrderRefs, st \in StatusInputs :
            (/\ users[u] # "admin"
             /\ updateOrderStatus(u, o, st) \/ updateOrderStatus_010(u, o, st))
            => orders' = orders
         ]_vars

\* an order the admin has shipped, whose owner asks to cancel it
C12_Witness ==
    \E o \in DOMAIN orders :
        /\ orders[o].status = "shipped"
        /\ users[orders[o].user_id] # "admin"
        /\ updateOrderStatus_outcome(orders[o].user_id, o, "cancelled").status = 403
        /\ updateOrderStatus_010_outcome(orders[o].user_id, o, "cancelled").status = 403

\* a move of the fulfillment state machine: forward along pending,
\* payment_pending, processing, shipped, completed, or to cancelled from a
\* state before completed
StateRank(st) ==
    CASE st = "pending" -> 1
      [] st = "payment_pending" -> 2
      [] st = "processing" -> 3
      [] st = "shipped" -> 4
      [] st = "completed" -> 5
      [] OTHER -> 6

AllowedMove(from, to) ==
    \/ from = to
    \/ to = "cancelled" /\ from \notin {"completed", "cancelled"}
    \/ to # "cancelled" /\ from # "cancelled" /\ StateRank(to) > StateRank(from)

\* C14: every change updateOrderStatus makes to an order's status is a move
\* of the fulfillment state machine; a completed order stays completed.
C14_StatusFollowsStateMachine ==
    [][\A o \in DOMAIN orders :
          (orders[o].status \in FulfillmentStates
             /\ orders'[o].status \in FulfillmentStates)
          => AllowedMove(orders[o].status, orders'[o].status)
      ]_vars

FeeSubtotals == {0, 2000, 4999, 5000, 5001, 6000}

\* C16: for every city of the store and every subtotal, every generation of
\* createOrder computes the same delivery fee.
C16_OneDeliveryFee ==
    \A a \in DOMAIN user_addresses, subtotal \in FeeSubtotals :
        /\ deliveryFee(user_addresses[a].city, subtotal) = deliveryFee_010(subtotal)
        /\ deliveryFee_010(subtotal) = deliveryFee_011(subtotal)

\* C17: createOrder answers 400 to a request with no items, to a delivery
\* request with no address_id and to a request naming an unknown menu item,
\* and 404 to one naming an address that is not the caller's; each of these,
\* and every request answered 400 or 404, leaves orders and order_items as
\* they were.
C17_RejectedBeforeInsert ==
    \A u \in UserIds, items \in ItemLists, a \in AddressRefs \cup {NULL},
       p \in BOOLEAN :
        LET out == createOrder_outcome(u, items, a, p, "ok")
            out_011 == createOrder_011_outcome(u, items, "ok")
            unknown == \E i \in 1..Len(items) : items[i].id \notin DOMAIN menu_items
            noAddress == ~p /\ a = NULL
        IN /\ items = << >> =>
                out = Outcome(400, "nothing") /\ out_011 = Outcome(400, "nothing")
           /\ (items # << >> /\ noAddress) => out = Outcome(400, "nothing")
           /\ (items # << >> /\ ~noAddress /\ unknown) =>
                out = Outcome(400, "nothing") /\ out_011 = Outcome(400, "nothing")
           /\ (items # << >> /\ ~noAddress /\ ~unknown /\ ~p /\ ForeignAddress(a, u))
                => out = Outcome(404, "nothing")
           /\ \A f \in CreateFaults :
                createOrder_outcome(u, items, a, p, f).status \in {400, 404}
                   => createOrder_outcome(u, items, a, p, f).effect = "nothing"
           /\ \A f \in CreateFaults_011 :
                createOrder_011_outcome(u, items, f).status \in {400, 404}
                   => createOrder_011_outcome(u, items, f).effect = "nothing"

\* C18: every persisted line item has a quantity greater than 0, and every
\* persisted order has subtotal >= 0 and delivery_fee >= 0.
C18_PositiveQuantities ==
    /\ \A o \in DOMAIN order_items : \A i \in 1..Len(order_items[o]) :
          order_items[o][i].quantity > 0
    /\ \A o \in DOMAIN orders :
          orders[o].subtotal >= 0 /\ orders[o].delivery_fee >= 0

\* C19: a request carrying the token of a user the store no longer holds is
\* answered 401; a request to an admin-only operation (deleteUser,
\* updateUserRole, updateOrderStatus) carrying the token of a user whose role
\* in the store is not admin is answered 403, whatever role the token carries.
C19_AuthorizationFromStore ==
    \A t \in tokens, target \in UserIds :
        /\ t.id \notin DOMAIN users =>
              /\ authMiddleware_outcome(t) = Outcome(401, "nothing")
              /\ \A f \in DeleteFaults :
                    deleteUser_outcome(t, target, f) = Outcome(401, "nothing")
              /\ \A r \in RoleInputs :
                    updateUserRole_outcome(t, target, r) = Outcome(401, "nothing")
        /\ (t.id \in DOMAIN users /\ users[t.id] # "admin") =>
              /\ \A f \in DeleteFaults :
                    deleteUser_outcome(t, target, f) = Outcome(403, "nothing")
              /\ \A r \in RoleInputs :
                    updateUserRole_outcome(t, target, r) = Outcome(403, "nothing")
              /\ \A o \in OrderRefs, st \in StatusInputs :
                    updateOrderStatus_outcome(reqUser(t).id, o, st)
                       = Outcome(403, "nothing")

\* a token issued to an admin who has since been demoted, and a token of a
\* user who has since been deleted
C19_Witness ==
    /\ \E t \in tokens :
          t.role = "admin" /\ t.id \in DOMAIN users /\ users[t.id] = "customer"
    /\ \E t \in tokens : t.id \notin DOMAIN users

\* C21: every step that opens a transaction at the gateway opens it for the
\* total_amount of an order times 100, in every generation of initiatePayment.
C21_MinorUnitsOnce ==
    [][Len(paystack') = Len(paystack) + 1
       => \E o \in DOMAIN orders :
             paystack'[Len(paystack')].amount = orders[o].total_amount * 100
      ]_vars

\* C25: every step in which initiatePayment opens a transaction and answers
\* with its reference leaves an order that holds that reference as
\* payment_reference, with payment_status initiated.
C25_SuccessMeansRecorded ==
    [][Len(paystack') = Len(paystack) + 1
       => \E o \in DOMAIN orders' :
             /\ orders'[o].payment_reference = Len(paystack')
             /\ orders'[o].payment_status = "initiated"
      ]_vars

\* C26: no step changes the lines of an order already placed (their
\* price_at_order and quantity) or the order's subtotal.
C26_PriceAtOrderFrozen ==
    [][/\ \A o \in DOMAIN order_items :
             o \in DOMAIN order_items' /\ order_items'[o] = order_items[o]
       /\ \A o \in DOMAIN orders :
             o \in DOMAIN orders' /\ orders'[o].subtotal = orders[o].subtotal
      ]_vars

\* an order paid and shipped whose dish has since changed its price
C26_Witness ==
    \E o \in DOMAIN order_items :
        /\ order_items[o][1].price_at_order # menu_items[order_items[o][1].menu_item_id]
        /\ orders[o].subtotal = LineTotal(order_items[o])
        /\ orders[o].payment_status = "paid"
        /\ orders[o].status = "shipped"

\* C27: a verifyPayment that sees the gateway's success for an order the
\* admin has moved to shipped, delivered, completed or cancelled leaves the
\* order's status as it is.
C27_VerifyNeverMovesBack ==
    [][\A u \in UserIds, o \in DOMAIN orders, r \in ReferenceInputs :
          (/\ orders[o].status \in {"shipped", "delivered", "completed", "cancelled"}
           /\ verifyPayment_outcome(u, o, r).effect = "paid"
           /\ verifyPayment(u, o, r))
          => orders'[o].status = orders[o].status
      ]_vars

\* C28: a verifyPayment whose gateway result is not success leaves the
\* payment_status of a paid order paid.
C28_PaidStaysPaid ==
    [][\A u \in UserIds, o \in DOMAIN orders, r \in ReferenceInputs :
          (/\ orders[o].payment_status = "paid"
           /\ verifyPayment_outcome(u, o, r).effect = "not_paid"
           /\ verifyPayment(u, o, r))
          => orders'[o].payment_status = "paid"
      ]_vars

\* C22: under every interleaving of addUserAddress and updateAddress
\* requests, at most one address of each user has is_default = true.
C22_OneDefaultAddress ==
    \A u \in UserIds :
        Cardinality({a \in addressesOf(u) : user_addresses[a].is_default}) <= 1

\* C23: no step leaves a user who has an address with none.
C23_KeepsOneAddress ==
    [][\A u \in UserIds :
          addressesOf(u) # {}
             => \E a \in DOMAIN user_addresses' : user_addresses'[a].user_id = u
      ]_vars

\* C24: while a createOrder whose line-item insert has failed awaits its
\* compensating delete, no read shows its order: getOrderById does not
\* answer it with 200, and it is in no list of getMyOrders or getAllOrders.
C24_FailedOrderUnseen ==
    \A r \in inflight :
        r.op = "createOrder_rollback"
           => /\ \A u \in UserIds : getOrderById_outcome(u, r.target).status # 200
              /\ \A u \in UserIds :
                    \A o \in getMyOrders_outcome(u).body : o.id # r.target
              /\ \A u \in UserIds :
                    \A o \in getAllOrders_outcome(u).body : o.id # r.target

\* C29: under every interleaving of initiatePayment and verifyPayment on an
\* order, no step takes an order that is paid to payment_status initiated
\* with another payment_reference.
C29_PaidNotReinitiated ==
    [][\A o \in DOMAIN orders :
          (orders[o].payment_status = "paid" /\ o \in DOMAIN orders')
             => ~(/\ orders'[o].payment_status = "initiated"
                  /\ orders'[o].payment_reference # orders[o].payment_reference)
      ]_vars

\* C30: after every interleaving of deleteUser and updateUserRole requests
\* of admins, a user with role admin remains.
C30_AdminRemains == adminCount >= 1

====
